---- MODULE Spec2Model ----
(***************************************************************************)
(* Availability and conflict detection of the pet rental backend:          *)
(* crud/booking.py (create_booking, check_pet_availability,                *)
(* update_booking_status, get_booking) and crud/calendar.py                *)
(* (create_blocked_date, update_blocked_date, delete_blocked_date,         *)
(* check_date_availability).                                               *)
(*                                                                         *)
(* The document store is modelled as three collections.  Calendar dates    *)
(* are positive integers (day numbers), compared as the store compares     *)
(* dates; 0 stands for None / an absent value.  A collection keeps its     *)
(* documents in insertion order, which is the order find() returns them.   *)
(* A booking's _id is its position in the bookings collection (bookings    *)
(* are never deleted); a blocked date carries its _id as a field.          *)
(* A timestamp is None or Stamp, the value of every datetime; whether      *)
(* datetime.utcnow() differs from the timestamp a document already holds   *)
(* is an input (tick) of the operation that writes it.                     *)
(***************************************************************************)
EXTENDS Integers, Sequences, FiniteSets, TLC

VARIABLES pets, bookings, blocked_dates, inflight, result

vars == <<pets, bookings, blocked_dates, inflight, result>>

(***************************************************************************)
(* Bounds of the model.                                                    *)
(***************************************************************************)
MaxDay == 3
MaxBookings == 2
MaxBlocks == 1
MaxBurst == 11
MaxBacklog == 101
MaxPetBlocks == 2

(***************************************************************************)
(* Program constants.                                                      *)
(***************************************************************************)
ToListLength == 10

None == 0

Days == 1..MaxDay
Stamp == 1
Users == {"u1", "u2", "u3"}

BookingStatus ==
    {"pending", "accepted", "rejected", "cancelled", "completed", "in_progress"}

PetCatalog ==
    (1 :> [owner_id |-> "u1", status |-> "active", listingType |-> "rent",
           dailyRate |-> 10, availableFrom |-> None, availableTo |-> None])
 @@ (2 :> [owner_id |-> "u1", status |-> "active", listingType |-> "rent",
           dailyRate |-> 20, availableFrom |-> 2, availableTo |-> 3])
 @@ (3 :> [owner_id |-> "u1", status |-> "active", listingType |-> "rent",
           dailyRate |-> 3, availableFrom |-> 2, availableTo |-> None])
 @@ (4 :> [owner_id |-> "u1", status |-> "active", listingType |-> "sale",
           dailyRate |-> None, availableFrom |-> None, availableTo |-> 2])

MissingPet == Cardinality(DOMAIN PetCatalog) + 1

Max(a, b) == IF a >= b THEN a ELSE b
Min(a, b) == IF a <= b THEN a ELSE b

Ids(n) == [i \in 1..n |-> i]

(* cursor.to_list(length=n): at most the first n documents of the cursor *)
ToList(cursor, n) == SubSeq(cursor, 1, Min(n, Len(cursor)))

(* the days start, start+1, ..., end in ascending order (empty if end < start) *)
DateRange(start_date, end_date) ==
    [i \in 1..Max(0, end_date - start_date + 1) |-> start_date + i - 1]

(* sorted(list(dates)) for a set of days *)
SortedDates(dates) ==
    LET lo == CHOOSE d \in dates : \A x \in dates : d <= x
        hi == CHOOSE d \in dates : \A x \in dates : d >= x
    IN  IF dates = {} THEN <<>>
        ELSE SelectSeq(DateRange(lo, hi), LAMBDA d : d \in dates)

SeqToSet(s) == {s[i] : i \in 1..Len(s)}


(***************************************************************************)
(* Query filters of the store.                                             *)
(***************************************************************************)

(* the $or of check_pet_availability's bookings query *)
PetAvailabilityOverlap(doc, start_date, end_date) ==
    \/ doc.start_date <= end_date /\ doc.end_date >= start_date
    \/ doc.start_date >= start_date /\ doc.start_date <= end_date
    \/ doc.end_date >= start_date /\ doc.end_date <= end_date

(* the three cases with the day a document ends on left out *)
ThreeCaseOverlap_HalfOpen(doc, start_date, end_date) ==
    \/ doc.start_date >= start_date /\ doc.start_date <= end_date
    \/ doc.end_date > start_date /\ doc.end_date <= end_date
    \/ doc.start_date <= start_date /\ doc.end_date > end_date

(* the three-case $or of the calendar module's conflict queries *)
ThreeCaseOverlap(doc, start_date, end_date) ==
    \/ doc.start_date >= start_date /\ doc.start_date <= end_date
    \/ doc.end_date >= start_date /\ doc.end_date <= end_date
    \/ doc.start_date <= start_date /\ doc.end_date >= end_date

(* the status filter with "accepted" left out *)
PetAvailabilityStatuses_OnlyPending == {"pending", "in_progress"}

(* "status": {"$in": [...]} of check_pet_availability *)
PetAvailabilityStatuses == {"pending", "accepted", "in_progress"}

(* the status filter letting cancelled bookings through *)
CalendarStatuses_WithCancelled == {"pending", "confirmed", "cancelled"}

(* "status": {"$in": [...]} of the calendar module's booking queries *)
CalendarStatuses == {"pending", "confirmed"}

(* ids of the bookings the calendar module's conflict query returns *)
ConflictingBookings(pet_id, start_date, end_date) ==
    ToList(SelectSeq(Ids(Len(bookings)),
                     LAMBDA i : /\ bookings[i].pet_id = pet_id
                                /\ bookings[i].status \in CalendarStatuses
                                /\ ThreeCaseOverlap(bookings[i], start_date, end_date)),
           ToListLength)

(* the overlap query with only its first case: a block that starts inside  *)
(* the range                                                               *)
ExistingBlocks_StartsInside(pet_id, start_date, end_date, exclude_id) ==
    ToList(SelectSeq(blocked_dates,
                     LAMBDA b : /\ b.pet_id = pet_id
                                /\ b.id # exclude_id
                                /\ b.start_date >= start_date
                                /\ b.start_date <= end_date),
           ToListLength)

(* the overlap query without its "_id": {"$ne": ...} filter *)
ExistingBlocks_SelfIncluded(pet_id, start_date, end_date, exclude_id) ==
    ToList(SelectSeq(blocked_dates,
                     LAMBDA b : /\ b.pet_id = pet_id
                                /\ ThreeCaseOverlap(b, start_date, end_date)),
           ToListLength)

(* the blocked dates the calendar module's overlap query returns;           *)
(* exclude_id is the "_id": {"$ne": ...} of update_blocked_date, None if no *)
(* document is excluded                                                     *)
ExistingBlocks(pet_id, start_date, end_date, exclude_id) ==
    ToList(SelectSeq(blocked_dates,
                     LAMBDA b : /\ b.pet_id = pet_id
                                /\ b.id # exclude_id
                                /\ ThreeCaseOverlap(b, start_date, end_date)),
           ToListLength)

(***************************************************************************)
(* check_pet_availability (crud/booking.py)                                *)
(***************************************************************************)
check_pet_availability(pet_id, start_date, end_date) ==
    LET pet == pets[pet_id]
        conflicting_bookings ==
            SelectSeq(Ids(Len(bookings)),
                      LAMBDA i : /\ bookings[i].pet_id = pet_id
                                 /\ bookings[i].status \in PetAvailabilityStatuses
                                 /\ PetAvailabilityOverlap(bookings[i], start_date, end_date))
    IN  IF pet_id \notin DOMAIN pets
           \/ pets[pet_id].status # "active" \/ pets[pet_id].listingType # "rent"
        THEN [available |-> FALSE, reason |-> "Pet is not available for rent",
              conflicting_bookings |-> <<>>]
        ELSE IF pet.availableFrom # None /\ pet.availableFrom > start_date
        THEN [available |-> FALSE,
              reason |-> "Start date is before pet's available from date",
              conflicting_bookings |-> <<>>]
        ELSE IF pet.availableTo # None /\ pet.availableTo < end_date
        THEN [available |-> FALSE,
              reason |-> "End date is after pet's available to date",
              conflicting_bookings |-> <<>>]
        ELSE IF conflicting_bookings # <<>>
        THEN [available |-> FALSE,
              reason |-> "Pet is already booked during these dates",
              conflicting_bookings |-> conflicting_bookings]
        ELSE [available |-> TRUE, reason |-> "",
              conflicting_bookings |-> <<>>]

(***************************************************************************)
(* check_date_availability (crud/calendar.py)                              *)
(* blocked_reason is [kind, date, reason]: date is the boundary date a     *)
(* window failure names, reason the reason code a block conflict names.    *)
(***************************************************************************)

(* the days of [start_date, end_date] covered by one of the documents *)
(* the day loop started one day late *)
ConflictingDates_FromNextDay(docs, start_date, end_date) ==
    SortedDates(UNION {(Max(docs[k].start_date, start_date) + 1)
                           .. Min(docs[k].end_date, end_date) : k \in 1..Len(docs)})

ConflictingDates(docs, start_date, end_date) ==
    SortedDates(UNION {Max(docs[k].start_date, start_date)
                           .. Min(docs[k].end_date, end_date) : k \in 1..Len(docs)})

(* the comparison of line 638 made non-strict *)
StartsBeforeAvailableFrom_NonStrict(pet, start_date) ==
    pet.availableFrom # None /\ start_date <= pet.availableFrom

(* line 638: the request starts before the pet's availableFrom *)
StartsBeforeAvailableFrom(pet, start_date) ==
    pet.availableFrom # None /\ start_date < pet.availableFrom

(* line 644: the request ends after the pet's availableTo *)
EndsAfterAvailableTo(pet, end_date) ==
    pet.availableTo # None /\ end_date > pet.availableTo

Reason(kind, date, reason) == [kind |-> kind, date |-> date, reason |-> reason]

(* the blocked-dates query answered before the bookings query *)
check_date_availability_BlocksFirst(pet_id, start_date, end_date) ==
    LET pet == pets[pet_id]
        booking_ids == ConflictingBookings(pet_id, start_date, end_date)
        conflicting_bookings == [k \in 1..Len(booking_ids) |-> bookings[booking_ids[k]]]
        blocks == ExistingBlocks(pet_id, start_date, end_date, None)
    IN  IF pet_id \notin DOMAIN pets
        THEN [is_available |-> FALSE,
              blocked_reason |-> Reason("Pet not found", None, ""),
              booking_ids |-> <<>>, conflicting_dates |-> <<>>]
        ELSE IF StartsBeforeAvailableFrom(pet, start_date)
        THEN [is_available |-> FALSE,
              blocked_reason |-> Reason("Pet is only available from",
                                       pet.availableFrom, ""),
              booking_ids |-> <<>>, conflicting_dates |-> <<>>]
        ELSE IF EndsAfterAvailableTo(pet, end_date)
        THEN [is_available |-> FALSE,
              blocked_reason |-> Reason("Pet is only available until",
                                       pet.availableTo, ""),
              booking_ids |-> <<>>, conflicting_dates |-> <<>>]
        ELSE IF blocks # <<>>
        THEN [is_available |-> FALSE,
              blocked_reason |-> Reason("Some dates are blocked", None,
                                       blocks[Len(blocks)].reason),
              booking_ids |-> <<>>,
              conflicting_dates |-> ConflictingDates(blocks, start_date, end_date)]
        ELSE IF booking_ids # <<>>
        THEN [is_available |-> FALSE,
              blocked_reason |-> Reason("Some dates are already booked", None, ""),
              booking_ids |-> booking_ids,
              conflicting_dates |->
                  ConflictingDates(conflicting_bookings, start_date, end_date)]
        ELSE [is_available |-> TRUE,
              blocked_reason |-> Reason("", None, ""),
              booking_ids |-> <<>>, conflicting_dates |-> <<>>]

check_date_availability(pet_id, start_date, end_date) ==
    LET pet == pets[pet_id]
        booking_ids == ConflictingBookings(pet_id, start_date, end_date)
        conflicting_bookings == [k \in 1..Len(booking_ids) |-> bookings[booking_ids[k]]]
        blocks == ExistingBlocks(pet_id, start_date, end_date, None)
    IN  IF pet_id \notin DOMAIN pets
        THEN [is_available |-> FALSE,
              blocked_reason |-> Reason("Pet not found", None, ""),
              booking_ids |-> <<>>, conflicting_dates |-> <<>>]
        ELSE IF StartsBeforeAvailableFrom(pet, start_date)
        THEN [is_available |-> FALSE,
              blocked_reason |-> Reason("Pet is only available from",
                                       pet.availableFrom, ""),
              booking_ids |-> <<>>, conflicting_dates |-> <<>>]
        ELSE IF EndsAfterAvailableTo(pet, end_date)
        THEN [is_available |-> FALSE,
              blocked_reason |-> Reason("Pet is only available until",
                                       pet.availableTo, ""),
              booking_ids |-> <<>>, conflicting_dates |-> <<>>]
        ELSE IF booking_ids # <<>>
        THEN [is_available |-> FALSE,
              blocked_reason |-> Reason("Some dates are already booked", None, ""),
              booking_ids |-> booking_ids,
              conflicting_dates |->
                  ConflictingDates(conflicting_bookings, start_date, end_date)]
        ELSE IF blocks # <<>>
        THEN [is_available |-> FALSE,
              blocked_reason |-> Reason("Some dates are blocked", None,
                                       blocks[Len(blocks)].reason),
              booking_ids |-> <<>>,
              conflicting_dates |-> ConflictingDates(blocks, start_date, end_date)]
        ELSE [is_available |-> TRUE,
              blocked_reason |-> Reason("", None, ""),
              booking_ids |-> <<>>, conflicting_dates |-> <<>>]


(***************************************************************************)
(* get_pet_calendar (crud/calendar.py)                                     *)
(* The calendar dict keeps its keys in insertion order; it is modelled as  *)
(* the sequence of its values, each value carrying its date (the key).     *)
(***************************************************************************)

(* to_list(length=100) of get_pet_calendar's two queries *)
CalendarListLength == 100

(* the $or of get_pet_calendar's two queries *)
CalendarRangeFilter(doc, start_date, end_date) ==
    \/ doc.start_date <= end_date
    \/ doc.end_date >= start_date

CalendarItem(date, status, reason, block_id, booking_id, booking_status, renter_id) ==
    [date |-> date, status |-> status, reason |-> reason, block_id |-> block_id,
     booking_id |-> booking_id, booking_status |-> booking_status,
     renter_id |-> renter_id]

(* every assignment adds an entry, as list.append would *)
DictSet_Append(calendar, item) == Append(calendar, item)

(* calendar[date_key] = item: the value of an existing key is replaced in  *)
(* place, a new key is added at the end                                    *)
DictSet(calendar, item) ==
    IF \E k \in 1..Len(calendar) : calendar[k].date = item.date
    THEN [k \in 1..Len(calendar) |->
             IF calendar[k].date = item.date THEN item ELSE calendar[k]]
    ELSE Append(calendar, item)

(* the while loop of lines 369-377 / 395-405 over the days of one document *)
RECURSIVE MarkDates(_, _, _)
MarkDates(calendar, dates, item) ==
    IF dates = <<>> THEN calendar
    ELSE MarkDates(DictSet(calendar, [item EXCEPT !.date = Head(dates)]),
                   Tail(dates), item)

(* lines 364-377: the blocked dates are marked in the order of the cursor *)
RECURSIVE MarkBlocked(_, _, _, _)
MarkBlocked(calendar, blocks, start_date, end_date) ==
    IF blocks = <<>> THEN calendar
    ELSE LET block == Head(blocks)
             block_start == Max(block.start_date, start_date)
             block_end == Min(block.end_date, end_date)
         IN  MarkBlocked(MarkDates(calendar, DateRange(block_start, block_end),
                                   CalendarItem(None, "blocked", block.reason,
                                                block.id, None, "", "")),
                         Tail(blocks), start_date, end_date)

(* lines 390-405: the bookings are marked over the blocked dates *)
RECURSIVE MarkBooked(_, _, _, _)
MarkBooked(calendar, booking_ids, start_date, end_date) ==
    IF booking_ids = <<>> THEN calendar
    ELSE LET booking == bookings[Head(booking_ids)]
             booking_start == Max(booking.start_date, start_date)
             booking_end == Min(booking.end_date, end_date)
         IN  MarkBooked(MarkDates(calendar, DateRange(booking_start, booking_end),
                                  CalendarItem(None, "booked", "", None,
                                               Head(booking_ids), booking.status,
                                               booking.renter_id)),
                        Tail(booking_ids), start_date, end_date)

get_pet_calendar(pet_id, start_date, end_date) ==
    LET date_range == DateRange(start_date, end_date)
        calendar == [k \in 1..Len(date_range) |->
                        CalendarItem(date_range[k], "available", "", None, None, "", "")]
        blocks == ToList(SelectSeq(blocked_dates,
                             LAMBDA b : /\ b.pet_id = pet_id
                                        /\ CalendarRangeFilter(b, start_date, end_date)),
                         CalendarListLength)
        booking_ids ==
            ToList(SelectSeq(Ids(Len(bookings)),
                       LAMBDA i : /\ bookings[i].pet_id = pet_id
                                  /\ bookings[i].status \in CalendarStatuses
                                  /\ CalendarRangeFilter(bookings[i], start_date,
                                                         end_date)),
                   CalendarListLength)
        (* a document whose clipped range is empty never enters its while   *)
        (* loop: the loops are run over the other documents only            *)
        marking_blocks ==
            SelectSeq(blocks, LAMBDA b : Max(b.start_date, start_date)
                                             <= Min(b.end_date, end_date))
        marking_bookings ==
            SelectSeq(booking_ids,
                      LAMBDA i : Max(bookings[i].start_date, start_date)
                                     <= Min(bookings[i].end_date, end_date))
    IN  IF pet_id \notin DOMAIN pets
        THEN [success |-> FALSE, message |-> "Pet not found", calendar |-> <<>>]
        ELSE [success |-> TRUE, message |-> "",
              calendar |-> MarkBooked(MarkBlocked(calendar, marking_blocks,
                                                  start_date, end_date),
                                      marking_bookings, start_date, end_date)]

(***************************************************************************)
(* What an operation returned: result.op names the operation, result.ok    *)
(* is FALSE when it returned None or success=False, result.ids are the     *)
(* ids its return value lists (conflicting bookings, existing blocks, or   *)
(* the id of the document inserted).                                       *)
(***************************************************************************)
Return(op, ok, message, ids) ==
    [op |-> op, ok |-> ok, message |-> message, ids |-> ids]

NoInflight == [pc |-> "idle", pet_id |-> None, start_date |-> None,
               end_date |-> None, renter_id |-> ""]

(***************************************************************************)
(* create_booking (crud/booking.py)                                        *)
(***************************************************************************)

(* lines 17-39: the reads and early returns before the document is built *)
create_booking_passes(pet_id, start_date, end_date) ==
    /\ pet_id \in DOMAIN pets
    /\ check_pet_availability(pet_id, start_date, end_date).available
    /\ ~ (pets[pet_id].dailyRate = None /\ pets[pet_id].listingType = "rent")

(***************************************************************************)
(* The amounts of a booking are Python floats (IEEE 754 doubles, 53-bit    *)
(* significand, round to nearest, ties to even).  The daily rates of the   *)
(* model are whole numbers, so daily_rate * total_days is exact and        *)
(* total_amount is kept as an integer t.  The literal 0.10 is the double   *)
(* (2^56 + 4) / (10 * 2^56), so the exact product t * 0.10 is              *)
(* t/10 + t/(10 * 2^54).  With a = |t|, e the exponent of the product      *)
(* (2^e <= product < 2^(e+1)), ulp = 2^(e-52) and a * 2^(52-e) = 10*Q + R, *)
(* the product is (Q + (R + a/(4 * 2^e))/10) ulp; it is rounded to         *)
(* (Q + r) ulp, and 10 * (Q + r) ulp = a + (10*r - R) ulp.  A double is    *)
(* kept as Tenths(n, x, k), the rational (n + x * 2^k) / 10.               *)
(***************************************************************************)
Tenths(n, x, k) == [tenths |-> n, excess |-> x, exp |-> k]

Abs(x) == IF x >= 0 THEN x ELSE 0 - x

Sign(x) == IF x >= 0 THEN 1 ELSE 0 - 1

(* 2^n mod m for 0 <= n < 70, m <= 320, without leaving 32-bit integers *)
Pow2Mod(n, m) ==
    LET p14 == (2 ^ 14) % m
        sq == (p14 * p14) % m
        q == n \div 14
        high == CASE q = 0 -> 1 % m
                  [] q = 1 -> p14
                  [] q = 2 -> sq
                  [] q = 3 -> (sq * p14) % m
                  [] q = 4 -> (sq * sq) % m
    IN  (high * ((2 ^ (n % 14)) % m)) % m

(* the exponent e of a * 0.10, a >= 1: the largest e with 10 * 2^e <= a *)
FeeExponent(a) ==
    LET Fits(e) == IF e >= 0 THEN 10 * (2 ^ e) <= a ELSE 10 <= a * (2 ^ (0 - e))
    IN  CHOOSE e \in (0 - 4)..20 : Fits(e) /\ ~ Fits(e + 1)

(* (a * 2^(52-e)) mod m *)
ScaledMod(a, e, m) == ((a % m) * Pow2Mod(52 - e, m)) % m

(* round to nearest, ties to even, of whole + num/den units, given as the  *)
(* number of units added to whole's floor part: num/den >= 0, parity is    *)
(* whole mod 2                                                             *)
RoundedUnits(num, den, parity) ==
    LET n == num \div den
        rem == num - n * den
    IN  IF 2 * rem < den THEN n
        ELSE IF 2 * rem > den THEN n + 1
        ELSE IF (parity + n) % 2 = 0 THEN n ELSE n + 1

(* the rounding of a * 0.10 for a whole number a >= 1 *)
FeeRounding(a) ==
    LET e == FeeExponent(a)
        R == ScaledMod(a, e, 10)
        Q32 == ((ScaledMod(a, e, 320) - R) \div 10) % 32
        num == IF e >= 0 THEN 4 * (2 ^ e) * R + a ELSE 4 * R + a * (2 ^ (0 - e))
        den == IF e >= 0 THEN 40 * (2 ^ e) ELSE 40
    IN  [e |-> e, R |-> R, Q32 |-> Q32, r |-> RoundedUnits(num, den, Q32 % 2)]

(* line 42: service_fee = total_amount * 0.10 *)
service_fee(total_amount) ==
    LET f == FeeRounding(Abs(total_amount))
    IN  IF total_amount = 0 THEN Tenths(0, 0, 0)
        ELSE Tenths(total_amount, Sign(total_amount) * (10 * f.r - f.R), f.e - 52)

(* line 43: grand_total = total_amount + service_fee.  In units of the     *)
(* fee's ulp the sum is a * 2^(52-e) + Q + r; it is rounded to a multiple  *)
(* of 2^k ulp, k the difference of the exponents of the sum and the fee.   *)
grand_total(total_amount) ==
    LET a == Abs(total_amount)
        f == FeeRounding(a)
        e2 == CHOOSE k \in 0..24 : 10 * (2 ^ k) <= 11 * a
                                   /\ ~ (10 * (2 ^ (k + 1)) <= 11 * a)
        k == e2 - f.e
        S == (f.Q32 + f.r) % (2 ^ (k + 1))
        m == S % (2 ^ k)
        d == (2 ^ k) * RoundedUnits(m, 2 ^ k, (S - m) \div (2 ^ k)) - m
    IN  IF total_amount = 0 THEN Tenths(0, 0, 0)
        ELSE Tenths(11 * total_amount,
                    Sign(total_amount) * ((10 * f.r - f.R) + 10 * d), f.e - 52)

(* lines 32-65: booking_doc *)
booking_doc(pet_id, start_date, end_date, renter_id) ==
    LET total_days == (end_date - start_date) + 1
        daily_rate == pets[pet_id].dailyRate
    IN  [pet_id |-> pet_id,
         owner_id |-> pets[pet_id].owner_id,
         renter_id |-> renter_id,
         start_date |-> start_date,
         end_date |-> end_date,
         total_days |-> total_days,
         daily_rate |-> daily_rate,
         total_amount |-> daily_rate * total_days,
         service_fee |-> service_fee(daily_rate * total_days),
         grand_total |-> grand_total(daily_rate * total_days),
         status |-> "pending",
         payment_status |-> "pending",
         updated_at |-> None]

(* the whole handler, run without interleaving *)
CreateBooking(pet_id, start_date, end_date, renter_id) ==
    /\ IF create_booking_passes(pet_id, start_date, end_date)
       THEN /\ bookings' = Append(bookings,
                                  booking_doc(pet_id, start_date, end_date, renter_id))
            /\ result' = Return("create_booking", TRUE, "", <<Len(bookings) + 1>>)
       ELSE /\ bookings' = bookings
            /\ result' = Return("create_booking", FALSE, "None", <<>>)
    /\ UNCHANGED <<pets, blocked_dates, inflight>>

(* create_booking_endpoint, lines 31-37 of routers/bookings.py: what the   *)
(* client gets for a create_booking outcome.  A None of create_booking is  *)
(* answered by HTTP 400 with one fixed detail; nothing else is raised.     *)
create_booking_endpoint(outcome) ==
    IF ~ outcome.ok
    THEN [status_code |-> 400,
          detail |-> "Failed to create booking. Pet may not be available for the selected dates.",
          ids |-> <<>>]
    ELSE [status_code |-> 200, detail |-> "", ids |-> outcome.ids]

(* lines 17-30 of a request that is interleaved with others: the reads.    *)
(* A request that fails here returns at once; one that passes is left      *)
(* waiting before its insert.                                              *)
CreateBookingCheck(proc, pet_id, start_date, end_date, renter_id) ==
    /\ inflight[proc].pc = "idle"
    /\ IF create_booking_passes(pet_id, start_date, end_date)
       THEN /\ inflight' = [inflight EXCEPT ![proc] =
                               [pc |-> "checked", pet_id |-> pet_id,
                                start_date |-> start_date, end_date |-> end_date,
                                renter_id |-> renter_id]]
            /\ result' = result
       ELSE /\ inflight' = inflight
            /\ result' = Return("create_booking", FALSE, "None", <<>>)
    /\ UNCHANGED <<pets, bookings, blocked_dates>>

(* an insert that reads the bookings again and gives up on a conflict *)
CreateBookingInsert_Rechecked(proc) ==
    /\ inflight[proc].pc = "checked"
    /\ IF create_booking_passes(inflight[proc].pet_id, inflight[proc].start_date,
                                inflight[proc].end_date)
       THEN /\ bookings' = Append(bookings,
                     booking_doc(inflight[proc].pet_id, inflight[proc].start_date,
                                 inflight[proc].end_date, inflight[proc].renter_id))
            /\ result' = Return("create_booking", TRUE, "", <<Len(bookings) + 1>>)
       ELSE /\ bookings' = bookings
            /\ result' = Return("create_booking", FALSE, "None", <<>>)
    /\ inflight' = [inflight EXCEPT ![proc] = NoInflight]
    /\ UNCHANGED <<pets, blocked_dates>>

(* lines 45-68 of an interleaved request: the insert *)
CreateBookingInsert(proc) ==
    /\ inflight[proc].pc = "checked"
    /\ bookings' = Append(bookings,
                          booking_doc(inflight[proc].pet_id, inflight[proc].start_date,
                                      inflight[proc].end_date, inflight[proc].renter_id))
    /\ result' = Return("create_booking", TRUE, "", <<Len(bookings) + 1>>)
    /\ inflight' = [inflight EXCEPT ![proc] = NoInflight]
    /\ UNCHANGED <<pets, blocked_dates>>

(***************************************************************************)
(* get_booking / update_booking_status (crud/booking.py)                   *)
(***************************************************************************)

(* get_booking finds the booking only for its owner or renter *)
get_booking_found(booking_id, user_id) ==
    /\ booking_id \in 1..Len(bookings)
    /\ \/ bookings[booking_id].owner_id = user_id
       \/ bookings[booking_id].renter_id = user_id

(* the permission checks with the renter allowed to accept and reject *)
update_booking_status_permitted_RenterToo(booking, status, user_id) ==
    IF status = "accepted" \/ status = "rejected" \/ status = "cancelled"
    THEN ~ (booking.owner_id # user_id /\ booking.renter_id # user_id)
    ELSE IF status = "completed"
    THEN booking.owner_id = user_id
    ELSE TRUE

(* lines 260-272: the permission checks; TRUE when none of them returns None *)
update_booking_status_permitted(booking, status, user_id) ==
    IF status = "accepted" \/ status = "rejected"
    THEN booking.owner_id = user_id
    ELSE IF status = "cancelled"
    THEN ~ (booking.owner_id # user_id /\ booking.renter_id # user_id)
    ELSE IF status = "completed"
    THEN booking.owner_id = user_id
    ELSE TRUE

(* the $set also writing payment_status *)
UpdateBookingStatus_ResettingPayment(booking_id, status, user_id, tick) ==
    /\ IF booking_id \notin 1..Len(bookings)
       THEN /\ bookings' = bookings
            /\ result' = Return("update_booking_status", FALSE, "None", <<>>)
       ELSE IF ~ update_booking_status_permitted(bookings[booking_id], status, user_id)
       THEN /\ bookings' = bookings
            /\ result' = Return("update_booking_status", FALSE, "None", <<>>)
       ELSE LET updated == [bookings[booking_id] EXCEPT !.status = status,
                                                        !.updated_at = Stamp,
                                                        !.payment_status = "refunded"]
                modified_count ==
                    IF updated = bookings[booking_id] /\ ~ tick THEN 0 ELSE 1
            IN  /\ bookings' = [bookings EXCEPT ![booking_id] = updated]
                /\ result' =
                     IF modified_count > 0 /\ get_booking_found(booking_id, user_id)
                     THEN Return("update_booking_status", TRUE, "", <<>>)
                     ELSE Return("update_booking_status", FALSE, "None", <<>>)
    /\ UNCHANGED <<pets, blocked_dates, inflight>>

UpdateBookingStatus(booking_id, status, user_id, tick) ==
    /\ IF booking_id \notin 1..Len(bookings)
       THEN /\ bookings' = bookings
            /\ result' = Return("update_booking_status", FALSE, "None", <<>>)
       ELSE IF ~ update_booking_status_permitted(bookings[booking_id], status, user_id)
       THEN /\ bookings' = bookings
            /\ result' = Return("update_booking_status", FALSE, "None", <<>>)
       ELSE LET updated == [bookings[booking_id] EXCEPT !.status = status,
                                                        !.updated_at = Stamp]
                modified_count ==
                    IF updated = bookings[booking_id] /\ ~ tick THEN 0 ELSE 1
            IN  /\ bookings' = [bookings EXCEPT ![booking_id] = updated]
                /\ result' =
                     IF modified_count > 0 /\ get_booking_found(booking_id, user_id)
                     THEN Return("update_booking_status", TRUE, "", <<>>)
                     ELSE Return("update_booking_status", FALSE, "None", <<>>)
    /\ UNCHANGED <<pets, blocked_dates, inflight>>


(***************************************************************************)
(* Blocked dates (crud/calendar.py, routers/calendar.py)                   *)
(***************************************************************************)

BlockIds == {blocked_dates[k].id : k \in 1..Len(blocked_dates)}

(* the _id of an inserted blocked date: an id no stored document has *)
NewBlockId == CHOOSE n \in 1..(Len(blocked_dates) + 1) : n \notin BlockIds

(* position of the blocked date with this _id, 0 if find_one returns None *)
FindBlock(block_id) ==
    IF block_id \in BlockIds
    THEN CHOOSE k \in 1..Len(blocked_dates) : blocked_dates[k].id = block_id
    ELSE 0

(* the pet lookup with the owner_id filter left out *)
PetOfOwner_AnyUser(pet_id, owner_id) ==
    pet_id \in DOMAIN pets

(* pets.find_one({"_id": pet_id, "owner_id": owner_id}) finds a pet *)
PetOfOwner(pet_id, owner_id) ==
    pet_id \in DOMAIN pets /\ pets[pet_id].owner_id = owner_id

(* create_blocked_date_endpoint and create_blocked_date *)
CreateBlockedDate(pet_id, owner_id, start_date, end_date, reason, notes) ==
    LET conflicting_bookings == ConflictingBookings(pet_id, start_date, end_date)
        existing_blocks == ExistingBlocks(pet_id, start_date, end_date, None)
        blocked_date == [id |-> NewBlockId, pet_id |-> pet_id,
                         start_date |-> start_date, end_date |-> end_date,
                         reason |-> reason, notes |-> notes, updated_at |-> Stamp]
    IN
    /\ IF start_date > end_date
       THEN /\ blocked_dates' = blocked_dates
            /\ result' = Return("create_blocked_date", FALSE,
                                "Start date must be before end date", <<>>)
       ELSE IF ~ PetOfOwner(pet_id, owner_id)
       THEN /\ blocked_dates' = blocked_dates
            /\ result' = Return("create_blocked_date", FALSE, "None", <<>>)
       ELSE IF conflicting_bookings # <<>>
       THEN /\ blocked_dates' = blocked_dates
            /\ result' = Return("create_blocked_date", FALSE,
                                "Cannot block dates with existing bookings",
                                conflicting_bookings)
       ELSE IF existing_blocks # <<>>
       THEN /\ blocked_dates' = blocked_dates
            /\ result' = Return("create_blocked_date", FALSE,
                                "Some dates are already blocked",
                                [k \in 1..Len(existing_blocks) |-> existing_blocks[k].id])
       ELSE /\ blocked_dates' = Append(blocked_dates, blocked_date)
            /\ result' = Return("create_blocked_date", TRUE, "", <<blocked_date.id>>)
    /\ UNCHANGED <<pets, bookings, inflight>>

(* lines 159-175: update_dict; update_data is a record holding the fields  *)
(* the request set                                                         *)
update_dict(update_data) ==
    [key \in (DOMAIN update_data \cap {"start_date", "end_date", "reason", "notes"})
              \cup {"updated_at"} |->
        IF key = "updated_at" THEN Stamp ELSE update_data[key]]

(* {"$set": update_dict} applied to a document *)
SetFields(doc, fields) ==
    [key \in DOMAIN doc |-> IF key \in DOMAIN fields THEN fields[key] ELSE doc[key]]

UpdateBlockedDate(block_id, owner_id, update_data, tick) ==
    LET k == FindBlock(block_id)
        blocked_date == blocked_dates[k]
        upd == update_dict(update_data)
        dates_changed == "start_date" \in DOMAIN upd \/ "end_date" \in DOMAIN upd
        start_date == IF "start_date" \in DOMAIN upd THEN upd.start_date
                      ELSE blocked_date.start_date
        end_date == IF "end_date" \in DOMAIN upd THEN upd.end_date
                    ELSE blocked_date.end_date
        conflicting_bookings ==
            ConflictingBookings(blocked_date.pet_id, start_date, end_date)
        existing_blocks ==
            ExistingBlocks(blocked_date.pet_id, start_date, end_date, block_id)
        updated_block == SetFields(blocked_date, upd)
        modified_count == IF updated_block = blocked_date /\ ~ tick THEN 0 ELSE 1
    IN
    /\ IF k = 0
       THEN /\ blocked_dates' = blocked_dates
            /\ result' = Return("update_blocked_date", FALSE,
                                "Blocked date not found", <<>>)
       ELSE IF ~ PetOfOwner(blocked_date.pet_id, owner_id)
       THEN /\ blocked_dates' = blocked_dates
            /\ result' = Return("update_blocked_date", FALSE,
                                "You don't have permission to update this blocked date",
                                <<>>)
       ELSE IF Cardinality(DOMAIN upd) = 1
       THEN /\ blocked_dates' = blocked_dates
            /\ result' = Return("update_blocked_date", TRUE,
                                "No changes to update", <<>>)
       ELSE IF dates_changed /\ conflicting_bookings # <<>>
       THEN /\ blocked_dates' = blocked_dates
            /\ result' = Return("update_blocked_date", FALSE,
                                "Cannot block dates with existing bookings",
                                conflicting_bookings)
       ELSE IF dates_changed /\ existing_blocks # <<>>
       THEN /\ blocked_dates' = blocked_dates
            /\ result' = Return("update_blocked_date", FALSE,
                                "Some dates overlap with existing blocked dates",
                                [j \in 1..Len(existing_blocks) |-> existing_blocks[j].id])
       ELSE /\ blocked_dates' = [blocked_dates EXCEPT ![k] = updated_block]
            /\ result' = IF modified_count = 0
                         THEN Return("update_blocked_date", FALSE,
                                     "Failed to update blocked date", <<>>)
                         ELSE Return("update_blocked_date", TRUE, "", <<>>)
    /\ UNCHANGED <<pets, bookings, inflight>>

DeleteBlockedDate(block_id, owner_id) ==
    LET k == FindBlock(block_id)
    IN
    /\ IF k = 0
       THEN /\ blocked_dates' = blocked_dates
            /\ result' = Return("delete_blocked_date", FALSE,
                                "Blocked date not found", <<>>)
       ELSE IF ~ PetOfOwner(blocked_dates[k].pet_id, owner_id)
       THEN /\ blocked_dates' = blocked_dates
            /\ result' = Return("delete_blocked_date", FALSE,
                                "You don't have permission to delete this blocked date",
                                <<>>)
       ELSE /\ blocked_dates' = SelectSeq(blocked_dates, LAMBDA b : b.id # block_id)
            /\ result' = Return("delete_blocked_date", TRUE,
                                "Blocked date deleted successfully", <<>>)
    /\ UNCHANGED <<pets, bookings, inflight>>

(***************************************************************************)
(* The read endpoints (routers/calendar.py): get_pet_calendar_endpoint and *)
(* check_availability_endpoint.  What a read returned is kept in result    *)
(* with the query it answered and its output.                              *)
(***************************************************************************)

(* "Limit to 90 days" of get_pet_calendar_endpoint *)
CalendarSpanLimit == 90

ReadReturn(op, ok, message, query, output) ==
    [op |-> op, ok |-> ok, message |-> message, ids |-> <<>>,
     query |-> query, output |-> output]

Query(pet_id, start_date, end_date) ==
    [pet_id |-> pet_id, start_date |-> start_date, end_date |-> end_date]

(* a read that also marks as completed the pet's bookings that ended       *)
(* before the range it is asked about                                      *)
GetPetCalendar_Completing(pet_id, start_date, end_date) ==
    LET query == Query(pet_id, start_date, end_date)
        answer == get_pet_calendar(pet_id, start_date, end_date)
    IN
    /\ result' = ReadReturn("get_pet_calendar", answer.success, answer.message,
                            query, answer.calendar)
    /\ bookings' = [i \in 1..Len(bookings) |->
                       IF bookings[i].pet_id = pet_id
                          /\ bookings[i].end_date < start_date
                       THEN [bookings[i] EXCEPT !.status = "completed"]
                       ELSE bookings[i]]
    /\ UNCHANGED <<pets, blocked_dates, inflight>>

GetPetCalendar(pet_id, start_date, end_date) ==
    LET query == Query(pet_id, start_date, end_date)
        answer == get_pet_calendar(pet_id, start_date, end_date)
    IN
    /\ result' =
          IF start_date > end_date
          THEN ReadReturn("get_pet_calendar", FALSE,
                          "Start date must be before end date", query, <<>>)
          ELSE IF end_date - start_date > CalendarSpanLimit
          THEN ReadReturn("get_pet_calendar", FALSE,
                          "Date range cannot exceed 90 days", query, <<>>)
          ELSE ReadReturn("get_pet_calendar", answer.success, answer.message,
                          query, answer.calendar)
    /\ UNCHANGED <<pets, bookings, blocked_dates, inflight>>

CheckDateAvailability(pet_id, start_date, end_date) ==
    LET query == Query(pet_id, start_date, end_date)
        answer == check_date_availability(pet_id, start_date, end_date)
    IN
    /\ result' =
          IF start_date > end_date
          THEN ReadReturn("check_date_availability", FALSE,
                          "Start date must be before end date", query, <<>>)
          ELSE ReadReturn("check_date_availability", TRUE, "", query, answer)
    /\ UNCHANGED <<pets, bookings, blocked_dates, inflight>>

(***************************************************************************)
(* Inputs of the requests.                                                 *)
(***************************************************************************)
Req(pet_id, start_date, end_date) ==
    [pet_id |-> pet_id, start_date |-> start_date, end_date |-> end_date]

BookingRequests ==
    {Req(1, 1, 2), Req(1, 2, 3), Req(1, 3, 3), Req(2, 2, 3),
     Req(2, 1, 2), Req(4, 1, 1), Req(MissingPet, 1, 1)}

(* the create_booking requests of Spec *)
SpecRequests == {Req(1, 1, 2), Req(2, 2, 3), Req(2, 1, 2), Req(MissingPet, 1, 1)}

Renters == {"u2"}

RaceRenters == {"u2", "u3"}

(* target statuses of the update_booking_status requests of Spec *)
StatusUpdates == {"accepted", "cancelled"}

BlockReq(pet_id, start_date, end_date, reason) ==
    [pet_id |-> pet_id, start_date |-> start_date, end_date |-> end_date,
     reason |-> reason]

BlockRequests ==
    {BlockReq(1, 1, 1, "maintenance"), BlockReq(1, 2, 3, "maintenance"),
     BlockReq(2, 1, 2, "personal"), BlockReq(1, 3, 2, "maintenance"),
     BlockReq(MissingPet, 1, 1, "maintenance")}

BlockOwners == {"u1", "u2"}

BlockUpdates ==
    {[start_date |-> 2], [end_date |-> 2], [reason |-> "maintenance"]}

BurstRequests == {Req(1, 2, 2)}

BurstBlockRequests == {BlockReq(1, 2, 2, "maintenance")}

Procs == 1..2

(***************************************************************************)
(* Specifications.                                                         *)
(***************************************************************************)
Init ==
    /\ pets = PetCatalog
    /\ bookings = <<>>
    /\ blocked_dates = <<>>
    /\ inflight = [proc \in Procs |-> NoInflight]
    /\ result = Return("", TRUE, "", <<>>)

DoCreateBooking ==
    \E req \in SpecRequests, renter_id \in Renters :
        /\ Len(bookings) < MaxBookings
        /\ CreateBooking(req.pet_id, req.start_date, req.end_date, renter_id)

DoUpdateBookingStatus ==
    \E booking_id \in 1..MaxBookings, status \in StatusUpdates,
       user_id \in Users, tick \in BOOLEAN :
        UpdateBookingStatus(booking_id, status, user_id, tick)

DoCreateBlockedDate ==
    \E req \in BlockRequests, owner_id \in BlockOwners :
        /\ Len(blocked_dates) < MaxBlocks
        /\ CreateBlockedDate(req.pet_id, owner_id, req.start_date, req.end_date,
                             req.reason, "")

DoUpdateBlockedDate ==
    \E block_id \in 1..MaxBlocks, owner_id \in BlockOwners,
       update_data \in BlockUpdates, tick \in BOOLEAN :
        UpdateBlockedDate(block_id, owner_id, update_data, tick)

DoDeleteBlockedDate ==
    \E block_id \in 1..MaxBlocks, owner_id \in BlockOwners :
        DeleteBlockedDate(block_id, owner_id)

(* every request runs to completion before the next one starts *)
Next ==
    \/ DoCreateBooking
    \/ DoUpdateBookingStatus
    \/ DoCreateBlockedDate
    \/ DoUpdateBlockedDate
    \/ DoDeleteBlockedDate

Spec == Init /\ [][Next]_vars

(* the booking operations alone, with every target status *)
DoUpdateAnyBookingStatus ==
    \E booking_id \in 1..MaxBookings, status \in BookingStatus,
       user_id \in Users, tick \in BOOLEAN :
        UpdateBookingStatus(booking_id, status, user_id, tick)

DoCreateAnyBooking ==
    \E req \in BookingRequests, renter_id \in Renters :
        /\ Len(bookings) < MaxBookings
        /\ CreateBooking(req.pet_id, req.start_date, req.end_date, renter_id)

NextBookings ==
    \/ DoCreateAnyBooking
    \/ DoUpdateAnyBookingStatus

SpecBookings == Init /\ [][NextBookings]_vars

(* create_booking requests interleave between their reads and their insert *)
Checked == {proc \in Procs : inflight[proc].pc = "checked"}

DoCreateBookingCheck ==
    \E proc \in Procs, req \in BookingRequests, renter_id \in RaceRenters :
        /\ Len(bookings) + Cardinality(Checked) < MaxBookings
        /\ CreateBookingCheck(proc, req.pet_id, req.start_date, req.end_date, renter_id)

DoCreateBookingInsert ==
    \E proc \in Procs : CreateBookingInsert(proc)

DoCancelBooking ==
    \E booking_id \in 1..MaxBookings, user_id \in Users, tick \in BOOLEAN :
        UpdateBookingStatus(booking_id, "cancelled", user_id, tick)

NextRace ==
    \/ DoCreateBookingCheck
    \/ DoCreateBookingInsert
    \/ DoCancelBooking

SpecRace == Init /\ [][NextRace]_vars

(* many bookings of one pet on one day: each is cancelled before the next  *)
(* is created, and cancelled ones are set back to pending                   *)
DoCreateBurstBooking ==
    \E req \in BurstRequests :
        /\ Len(bookings) < MaxBurst
        /\ CreateBooking(req.pet_id, req.start_date, req.end_date, "u2")

DoUpdateBurstStatus ==
    \E booking_id \in 1..MaxBurst, status \in {"cancelled", "pending"} :
        UpdateBookingStatus(booking_id, status, "u1", TRUE)

DoCreateBurstBlockedDate ==
    \E req \in BurstBlockRequests :
        /\ Len(blocked_dates) < MaxBlocks
        /\ CreateBlockedDate(req.pet_id, "u1", req.start_date, req.end_date,
                             req.reason, "")

NextBurst ==
    \/ DoCreateBurstBooking
    \/ DoUpdateBurstStatus
    \/ DoCreateBurstBlockedDate

SpecBurst == Init /\ [][NextBurst]_vars

(* a backlog of one pet: a renter requests one day after the other, each   *)
(* request the day after the last booked one, none is ever answered; the   *)
(* owner blocks the last day of the backlog                                *)
DoCreateBacklogBooking ==
    \E day \in 1..MaxBacklog :
        /\ day = Len(bookings) + 1
        /\ CreateBooking(1, day, day, "u2")

DoCreateBacklogBlockedDate ==
    \E day \in {MaxBacklog} :
        /\ Len(blocked_dates) < MaxBlocks
        /\ CreateBlockedDate(1, "u1", day, day, "maintenance", "")

NextBacklog ==
    \/ DoCreateBacklogBooking
    \/ DoCreateBacklogBlockedDate

SpecBacklog == Init /\ [][NextBacklog]_vars

(* the read endpoints next to a few writes of one pet *)
ReadPets == {1, MissingPet}

DoCreateReadBooking ==
    \E req \in {Req(1, 1, 2)} :
        /\ Len(bookings) < MaxBookings
        /\ CreateBooking(req.pet_id, req.start_date, req.end_date, "u2")

DoUpdateReadStatus ==
    \E booking_id \in 1..MaxBookings, status \in StatusUpdates :
        UpdateBookingStatus(booking_id, status, "u1", TRUE)

ReadBlockRequests ==
    {BlockReq(1, 1, 1, "maintenance"), BlockReq(1, 2, 3, "maintenance")}

DoCreateReadBlockedDate ==
    \E req \in ReadBlockRequests :
        /\ Len(blocked_dates) < MaxBlocks
        /\ CreateBlockedDate(req.pet_id, "u1", req.start_date, req.end_date,
                             req.reason, "")

DoDeleteReadBlockedDate ==
    \E block_id \in 1..MaxBlocks : DeleteBlockedDate(block_id, "u1")

DoGetPetCalendar ==
    \E pet_id \in ReadPets, start_date \in Days, end_date \in Days :
        GetPetCalendar(pet_id, start_date, end_date)

DoCheckDateAvailability ==
    \E pet_id \in ReadPets, start_date \in Days, end_date \in Days :
        CheckDateAvailability(pet_id, start_date, end_date)

NextReads ==
    \/ DoCreateReadBooking
    \/ DoUpdateReadStatus
    \/ DoCreateReadBlockedDate
    \/ DoDeleteReadBlockedDate
    \/ DoGetPetCalendar
    \/ DoCheckDateAvailability

SpecReads == Init /\ [][NextReads]_vars

(* bookings of pets with different daily rates, over ranges of different   *)
(* lengths, one of them with its end before its start                      *)
PricingRequests ==
    {Req(1, 1, 1), Req(1, 1, 3), Req(2, 2, 3), Req(3, 2, 2), Req(3, 2, 3),
     Req(3, 3, 2)}

DoCreatePricedBooking ==
    \E req \in PricingRequests, renter_id \in Renters :
        /\ Len(bookings) < MaxBookings
        /\ CreateBooking(req.pet_id, req.start_date, req.end_date, renter_id)

DoRejectPricedBooking ==
    \E booking_id \in 1..MaxBookings :
        UpdateBookingStatus(booking_id, "rejected", "u1", TRUE)

NextPricing ==
    \/ DoCreatePricedBooking
    \/ DoRejectPricedBooking

SpecPricing == Init /\ [][NextPricing]_vars

(* two renters book pet 1 again and again, and the owner, the renter and a *)
(* stranger ask for every status of every stored booking                   *)
DoCreateRightsBooking ==
    \E renter_id \in RaceRenters :
        /\ Len(bookings) < MaxBookings
        /\ CreateBooking(1, 1, 2, renter_id)

DoUpdateStoredBookingStatus ==
    \E booking_id \in 1..Len(bookings), status \in BookingStatus,
       user_id \in Users, tick \in BOOLEAN :
        UpdateBookingStatus(booking_id, status, user_id, tick)

NextRights ==
    \/ DoCreateRightsBooking
    \/ DoUpdateStoredBookingStatus

SpecRights == Init /\ [][NextRights]_vars

(* the owner and another user create, re-date, re-label and delete blocked *)
(* dates of pets 1 and 2 while a renter books day 3 of pet 1               *)
PetBlockRequests ==
    {BlockReq(1, 1, 1, "maintenance"), BlockReq(1, 2, 3, "maintenance"),
     BlockReq(2, 2, 3, "personal")}

PetBlockUpdates == BlockUpdates \cup {[end_date |-> 3]}

DoCreateBlocksBooking ==
    /\ Len(bookings) < MaxBookings
    /\ CreateBooking(1, 3, 3, "u2")

DoCreatePetBlockedDate ==
    \E req \in PetBlockRequests, owner_id \in BlockOwners :
        /\ Len(blocked_dates) < MaxPetBlocks
        /\ CreateBlockedDate(req.pet_id, owner_id, req.start_date, req.end_date,
                             req.reason, "")

DoUpdatePetBlockedDate ==
    \E block_id \in 1..MaxPetBlocks, owner_id \in BlockOwners,
       update_data \in PetBlockUpdates, tick \in BOOLEAN :
        UpdateBlockedDate(block_id, owner_id, update_data, tick)

DoDeletePetBlockedDate ==
    \E block_id \in 1..MaxPetBlocks, owner_id \in BlockOwners :
        DeleteBlockedDate(block_id, owner_id)

NextBlocks ==
    \/ DoCreateBlocksBooking
    \/ DoCreatePetBlockedDate
    \/ DoUpdatePetBlockedDate
    \/ DoDeletePetBlockedDate

SpecBlocks == Init /\ [][NextBlocks]_vars

(* a renter asks whether pet 1 is free over a five-day range, over part of *)
(* it and over the day after it, books these ranges and cancels bookings   *)
ScenarioRanges ==
    {[start_date |-> 1, end_date |-> 5], [start_date |-> 2, end_date |-> 4],
     [start_date |-> 6, end_date |-> 6]}

DoCheckScenarioRange ==
    \E range \in ScenarioRanges :
        CheckDateAvailability(1, range.start_date, range.end_date)

DoCreateScenarioBooking ==
    \E range \in ScenarioRanges :
        /\ Len(bookings) < MaxBookings
        /\ CreateBooking(1, range.start_date, range.end_date, "u2")

DoCancelScenarioBooking ==
    \E booking_id \in 1..MaxBookings :
        UpdateBookingStatus(booking_id, "cancelled", "u2", TRUE)

NextScenario ==
    \/ DoCheckScenarioRange
    \/ DoCreateScenarioBooking
    \/ DoCancelScenarioBooking

SpecScenario == Init /\ [][NextScenario]_vars

(* the five writing operations with one request each: a renter books pet 1 *)
(* on days 1..2, the owner and a stranger accept or cancel bookings, and   *)
(* the owner creates, changes and deletes a blocked date on day 3          *)
DoCreateFrameBooking ==
    /\ Len(bookings) < MaxBookings
    /\ CreateBooking(1, 1, 2, "u2")

DoUpdateFrameStatus ==
    \E booking_id \in 1..MaxBookings, status \in StatusUpdates,
       user_id \in {"u1", "u3"} :
        UpdateBookingStatus(booking_id, status, user_id, TRUE)

DoCreateFrameBlockedDate ==
    /\ Len(blocked_dates) < MaxBlocks
    /\ CreateBlockedDate(1, "u1", 3, 3, "personal", "")

DoUpdateFrameBlockedDate ==
    \E block_id \in 1..MaxBlocks, update_data \in BlockUpdates :
        UpdateBlockedDate(block_id, "u1", update_data, TRUE)

DoDeleteFrameBlockedDate ==
    \E block_id \in 1..MaxBlocks : DeleteBlockedDate(block_id, "u1")

NextFrame ==
    \/ DoCreateFrameBooking
    \/ DoUpdateFrameStatus
    \/ DoCreateFrameBlockedDate
    \/ DoUpdateFrameBlockedDate
    \/ DoDeleteFrameBlockedDate

SpecFrame == Init /\ [][NextFrame]_vars

(***************************************************************************)
(* Notions the properties are stated in.                                   *)
(***************************************************************************)

(* the statuses with which a booking occupies the calendar *)
Occupying == {"pending", "accepted", "in_progress"}

(* the closed ranges of two documents share a calendar day *)
SharesDay(a, b) ==
    (a.start_date .. a.end_date) \cap (b.start_date .. b.end_date) # {}

Range(start_date, end_date) == [start_date |-> start_date, end_date |-> end_date]

(* ids of the bookings of a pet that occupy a day of the range *)
OccupyingBookings(pet_id, range) ==
    {i \in 1..Len(bookings) : /\ bookings[i].pet_id = pet_id
                              /\ bookings[i].status \in Occupying
                              /\ SharesDay(bookings[i], range)}

(***************************************************************************)
(* C1: after any sequence of completed create_booking,                     *)
(* update_booking_status, create_blocked_date, update_blocked_date and     *)
(* delete_blocked_date operations, no day of a pet is covered both by a    *)
(* blocked date and by a booking of that pet whose status is pending,      *)
(* accepted or in_progress.                                                *)
(* Fails: create_booking never reads blocked_dates.                        *)
(***************************************************************************)
C1_NoDayBookedAndBlocked ==
    \A k \in 1..Len(blocked_dates) :
        OccupyingBookings(blocked_dates[k].pet_id, blocked_dates[k]) = {}

(***************************************************************************)
(* C2: a create_booking that runs without interleaving inserts only if no  *)
(* pending, accepted or in_progress booking of the pet shares a day with   *)
(* the requested range; when it inserts, exactly one booking is added,     *)
(* with status pending and payment_status pending; when the pet is missing *)
(* or the range is unavailable it returns failure and leaves bookings      *)
(* unchanged.                                                              *)
(***************************************************************************)
C2_CreateBookingStep(pet_id, start_date, end_date, renter_id) ==
    LET occupied == OccupyingBookings(pet_id, Range(start_date, end_date)) # {}
        added == bookings'[Len(bookings')]
    IN  /\ bookings' # bookings =>
              /\ ~ occupied
              /\ result'.ok
              /\ Len(bookings') = Len(bookings) + 1
              /\ SubSeq(bookings', 1, Len(bookings)) = bookings
              /\ added.pet_id = pet_id
              /\ added.start_date = start_date /\ added.end_date = end_date
              /\ added.status = "pending" /\ added.payment_status = "pending"
        /\ (pet_id \notin DOMAIN pets \/ occupied) =>
              /\ bookings' = bookings
              /\ result' = Return("create_booking", FALSE, "None", <<>>)
        /\ bookings' = bookings => ~ result'.ok

C2_CreateBookingGuarded ==
    [][result'.op = "create_booking" =>
          \A req \in BookingRequests, renter_id \in Renters :
             CreateBooking(req.pet_id, req.start_date, req.end_date, renter_id)
             => C2_CreateBookingStep(req.pet_id, req.start_date, req.end_date,
                                     renter_id)]_vars

(* a second booking of a pet was inserted next to an accepted one *)
C2_Witness ==
    /\ result.op = "create_booking" /\ result.ok
    /\ Len(bookings) = 2
    /\ bookings[1].pet_id = bookings[2].pet_id
    /\ bookings[1].status = "accepted"
    /\ bookings[2].status = "pending" /\ bookings[2].payment_status = "pending"

(***************************************************************************)
(* C3: two concurrent create_booking requests for the same pet with        *)
(* overlapping ranges can both read the store before either insert is      *)
(* written; then both succeed and the store holds two pending bookings of  *)
(* the pet that share a day.  Stated as: a request that passed its         *)
(* availability check inserts its booking whatever was inserted since, so  *)
(* two requests that both passed the check before either insert both       *)
(* succeed; the double-booked state is the witness.                        *)
(***************************************************************************)
C3_CheckedRequestInserts ==
    [][\A proc \in Procs :
          inflight[proc].pc = "checked" /\ inflight'[proc].pc = "idle"
          => /\ result' = Return("create_booking", TRUE, "", <<Len(bookings) + 1>>)
             /\ Len(bookings') = Len(bookings) + 1
             /\ bookings'[Len(bookings')].status = "pending"
             /\ bookings'[Len(bookings')].pet_id = inflight[proc].pet_id
             /\ bookings'[Len(bookings')].start_date = inflight[proc].start_date
             /\ bookings'[Len(bookings')].end_date = inflight[proc].end_date]_vars

(* both requests succeeded: two pending bookings of one pet share a day, *)
(* and neither was ever updated                                          *)
C3_DoubleBooked ==
    /\ Len(bookings) = 2
    /\ result = Return("create_booking", TRUE, "", <<2>>)
    /\ bookings[1].pet_id = bookings[2].pet_id
    /\ bookings[1].status = "pending" /\ bookings[2].status = "pending"
    /\ bookings[1].updated_at = None /\ bookings[2].updated_at = None
    /\ SharesDay(bookings[1], bookings[2])

(***************************************************************************)
(* C4: after any sequence of non-interleaved create_booking and            *)
(* update_booking_status operations, no two bookings of the same pet whose *)
(* statuses are both pending, accepted or in_progress share a day; an      *)
(* update_booking_status that gives a booking an occupying status is       *)
(* subject to the same overlap check as creation.                          *)
(* Fails: update_booking_status writes the status without any overlap      *)
(* check.                                                                  *)
(***************************************************************************)
C4_NoDoubleBooking ==
    \A i, j \in 1..Len(bookings) :
        /\ i # j
        /\ bookings[i].pet_id = bookings[j].pet_id
        /\ bookings[i].status \in Occupying
        /\ bookings[j].status \in Occupying
        => ~ SharesDay(bookings[i], bookings[j])

(***************************************************************************)
(* C5: update_booking_status changes a status only along pending ->        *)
(* accepted, pending -> rejected, pending -> cancelled, accepted ->        *)
(* cancelled and accepted -> completed; a rejected, cancelled or completed *)
(* booking keeps its status under every later update_booking_status call.  *)
(* Fails: update_booking_status never reads the current status.            *)
(***************************************************************************)
PermittedTransitions ==
    {<<"pending", "accepted">>, <<"pending", "rejected">>, <<"pending", "cancelled">>,
     <<"accepted", "cancelled">>, <<"accepted", "completed">>}

C5_OnlyPermittedTransitions ==
    [][\A i \in 1..Len(bookings) :
          bookings'[i].status # bookings[i].status
          => <<bookings[i].status, bookings'[i].status>> \in PermittedTransitions]_vars

(***************************************************************************)
(* C6: create_blocked_date, and update_blocked_date when the request sets  *)
(* a date, fail and write nothing whenever a pending, accepted or          *)
(* in_progress booking of the pet shares a day with the block's resulting  *)
(* range, and the failure lists conflicting booking ids.                   *)
(* Fails: the calendar module's booking queries filter on the statuses     *)
(* "pending" and "confirmed", and no booking ever has status "confirmed".  *)
(***************************************************************************)
C6_Refused(pet_id, range) ==
    OccupyingBookings(pet_id, range) # {}
    => /\ blocked_dates' = blocked_dates
       /\ ~ result'.ok
       /\ result'.ids # <<>>
       /\ SeqToSet(result'.ids) \subseteq OccupyingBookings(pet_id, range)

C6_CreateStep ==
    \A req \in BlockRequests, owner_id \in BlockOwners :
        /\ CreateBlockedDate(req.pet_id, owner_id, req.start_date, req.end_date,
                             req.reason, "")
        /\ req.start_date <= req.end_date
        /\ PetOfOwner(req.pet_id, owner_id)
        => C6_Refused(req.pet_id, Range(req.start_date, req.end_date))

C6_UpdateStep ==
    \A block_id \in BlockIds, owner_id \in BlockOwners,
       update_data \in BlockUpdates, tick \in BOOLEAN :
        LET block == blocked_dates[FindBlock(block_id)]
            start_date == IF "start_date" \in DOMAIN update_data
                          THEN update_data.start_date ELSE block.start_date
            end_date == IF "end_date" \in DOMAIN update_data
                        THEN update_data.end_date ELSE block.end_date
        IN  /\ UpdateBlockedDate(block_id, owner_id, update_data, tick)
            /\ PetOfOwner(block.pet_id, owner_id)
            /\ DOMAIN update_data \cap {"start_date", "end_date"} # {}
            => C6_Refused(block.pet_id, Range(start_date, end_date))

C6_BlocksRefusedOnBookings == [][C6_CreateStep /\ C6_UpdateStep]_vars

(***************************************************************************)
(* C7: for every booking B of an existing pet with status pending,         *)
(* accepted or in_progress whose range shares a day with a query range     *)
(* inside the pet's availability window, check_date_availability returns   *)
(* is_available = false and lists B's id in booking_ids.                   *)
(* Fails for accepted and in_progress bookings: the query filters on       *)
(* "pending" and "confirmed".                                              *)
(***************************************************************************)
InWindow(pet_id, start_date, end_date) ==
    /\ pets[pet_id].availableFrom = None \/ pets[pet_id].availableFrom <= start_date
    /\ pets[pet_id].availableTo = None \/ end_date <= pets[pet_id].availableTo

C7_OccupyingBookingsReported ==
    \A pet_id \in DOMAIN pets, start_date \in Days, end_date \in Days :
        start_date <= end_date /\ InWindow(pet_id, start_date, end_date)
        => \A i \in OccupyingBookings(pet_id, Range(start_date, end_date)) :
              /\ ~ check_date_availability(pet_id, start_date, end_date).is_available
              /\ i \in SeqToSet(check_date_availability(pet_id, start_date,
                                                        end_date).booking_ids)

(***************************************************************************)
(* C8: conflict detection is not capped: however many pending bookings of  *)
(* a pet overlap the query range (also more than 10),                      *)
(* check_date_availability lists the id of every one of them and every day *)
(* of the range one of them covers, and create_blocked_date's conflict     *)
(* result lists every overlapping booking id.                              *)
(* Fails: the conflict queries end in to_list(length=10).                  *)
(***************************************************************************)
PendingBookings(pet_id, range) ==
    {i \in 1..Len(bookings) : /\ bookings[i].pet_id = pet_id
                              /\ bookings[i].status = "pending"
                              /\ SharesDay(bookings[i], range)}

C8_AllListed ==
    \A pet_id \in DOMAIN pets, start_date \in Days, end_date \in Days :
        LET pending == PendingBookings(pet_id, Range(start_date, end_date))
            answer == check_date_availability(pet_id, start_date, end_date)
        IN  /\ start_date <= end_date
            /\ InWindow(pet_id, start_date, end_date)
            /\ pending # {}
            => /\ pending \subseteq SeqToSet(answer.booking_ids)
               /\ \A i \in pending :
                     (bookings[i].start_date .. bookings[i].end_date)
                         \cap (start_date .. end_date)
                     \subseteq SeqToSet(answer.conflicting_dates)

C8_BlockStep ==
    \A req \in BlockRequests \cup BurstBlockRequests, owner_id \in BlockOwners :
        LET pending == PendingBookings(req.pet_id, Range(req.start_date, req.end_date))
        IN  /\ CreateBlockedDate(req.pet_id, owner_id, req.start_date, req.end_date,
                                 req.reason, "")
            /\ req.start_date <= req.end_date
            /\ PetOfOwner(req.pet_id, owner_id)
            /\ pending # {}
            => pending \subseteq SeqToSet(result'.ids)

C8_ConflictsExhaustive == []C8_AllListed /\ [][C8_BlockStep]_vars

(***************************************************************************)
(* C9: a cancelled or rejected booking never appears in the conflict       *)
(* result of check_date_availability or check_pet_availability; and when a *)
(* query range (inside the pet's window, no blocks) is unavailable only    *)
(* because of one pending booking, the same query returns available once   *)
(* update_booking_status has set that booking to cancelled or rejected.    *)
(***************************************************************************)
Freed == {"cancelled", "rejected"}

C9_FreedNeverReported ==
    \A pet_id \in DOMAIN pets \cup {MissingPet}, start_date \in Days, end_date \in Days :
        /\ \A i \in SeqToSet(check_date_availability(pet_id, start_date,
                                                     end_date).booking_ids) :
              bookings[i].status \notin Freed
        /\ \A i \in SeqToSet(check_pet_availability(pet_id, start_date,
                                                    end_date).conflicting_bookings) :
              bookings[i].status \notin Freed

C9_FreeingStep ==
    \A i \in 1..Len(bookings) :
        /\ result'.op = "update_booking_status"
        /\ bookings[i].status = "pending"
        /\ bookings'[i].status \in Freed
        /\ blocked_dates = <<>> /\ blocked_dates' = <<>>
        => \A start_date \in Days, end_date \in Days :
              LET pet_id == bookings[i].pet_id
              IN  start_date <= end_date /\ InWindow(pet_id, start_date, end_date)
                  => /\ check_date_availability(pet_id, start_date,
                                                end_date).booking_ids = <<i>>
                        => (check_date_availability(pet_id, start_date,
                                                    end_date).is_available)'
                     /\ check_pet_availability(pet_id, start_date,
                                               end_date).conflicting_bookings = <<i>>
                        => (check_pet_availability(pet_id, start_date,
                                                   end_date).available)'

C9_StatusExclusion == []C9_FreedNeverReported /\ [][C9_FreeingStep]_vars

(* the only booking of a pet was just rejected or cancelled and its range *)
(* is available again                                                     *)
C9_Witness ==
    /\ result.op = "update_booking_status" /\ result.ok
    /\ Len(bookings) = 1
    /\ bookings[1].status \in Freed
    /\ check_date_availability(bookings[1].pet_id, bookings[1].start_date,
                               bookings[1].end_date).is_available
    /\ check_pet_availability(bookings[1].pet_id, bookings[1].start_date,
                              bookings[1].end_date).available

(***************************************************************************)
(* C10: check_date_availability returns is_available = false whenever      *)
(* availableFrom is set and start_date is before it, or availableTo is set *)
(* and end_date is after it, whatever the bookings and blocks, and the     *)
(* blocked_reason names the violated boundary date; start_date equal to    *)
(* availableFrom and end_date equal to availableTo pass, and an unset      *)
(* bound restricts nothing.                                                *)
(***************************************************************************)
WindowReasons == {"Pet is only available from", "Pet is only available until"}

C10_WindowEnforced ==
    \A pet_id \in DOMAIN pets, start_date \in Days, end_date \in Days :
        LET pet == pets[pet_id]
            answer == check_date_availability(pet_id, start_date, end_date)
            before == pet.availableFrom # None /\ start_date < pet.availableFrom
            after == pet.availableTo # None /\ end_date > pet.availableTo
        IN  /\ before =>
                 /\ ~ answer.is_available
                 /\ answer.blocked_reason =
                        Reason("Pet is only available from", pet.availableFrom, "")
            /\ ~ before /\ after =>
                 /\ ~ answer.is_available
                 /\ answer.blocked_reason =
                        Reason("Pet is only available until", pet.availableTo, "")
            /\ ~ before /\ ~ after =>
                 answer.blocked_reason.kind \notin WindowReasons

(* a pet with a window has a pending booking and a blocked date, and a    *)
(* query overlapping both is refused for the window, while the query on   *)
(* the window's own bounds gets past the window check                     *)
C10_Witness ==
    \E i \in 1..Len(bookings), k \in 1..Len(blocked_dates) :
        LET pet_id == bookings[i].pet_id
            pet == pets[pet_id]
        IN  /\ blocked_dates[k].pet_id = pet_id
            /\ bookings[i].status = "pending"
            /\ pet.availableFrom # None /\ pet.availableTo # None
            /\ pet.availableFrom - 1 \in Days
            /\ check_date_availability(pet_id, pet.availableFrom - 1,
                                       pet.availableTo).blocked_reason.kind
                   = "Pet is only available from"
            /\ check_date_availability(pet_id, pet.availableFrom,
                                       pet.availableTo).blocked_reason.kind
                   = "Some dates are already booked"

(***************************************************************************)
(* C11: in every reachable state every booking and every blocked date of a *)
(* pet with an availability window lies inside that window: create_booking,*)
(* create_blocked_date and update_blocked_date each reject a range that    *)
(* starts before availableFrom or ends after availableTo.                  *)
(* Fails for blocked dates: create_blocked_date and update_blocked_date    *)
(* never read the pet's availableFrom / availableTo.                       *)
(***************************************************************************)
C11_InsideWindow ==
    /\ \A i \in 1..Len(bookings) :
          InWindow(bookings[i].pet_id, bookings[i].start_date, bookings[i].end_date)
    /\ \A k \in 1..Len(blocked_dates) :
          InWindow(blocked_dates[k].pet_id, blocked_dates[k].start_date,
                   blocked_dates[k].end_date)

(***************************************************************************)
(* C12: every stored booking and every stored blocked date satisfies       *)
(* start_date <= end_date in every reachable state: create_booking,        *)
(* create_blocked_date and update_blocked_date (also an update that sets   *)
(* only one of the two dates) reject a range with end_date before          *)
(* start_date before any write.                                            *)
(* Fails: update_blocked_date writes the date it was given without         *)
(* comparing it with the date the document keeps.                          *)
(***************************************************************************)
C12_StartNotAfterEnd ==
    /\ \A i \in 1..Len(bookings) : bookings[i].start_date <= bookings[i].end_date
    /\ \A k \in 1..Len(blocked_dates) :
          blocked_dates[k].start_date <= blocked_dates[k].end_date

(***************************************************************************)
(* C13: overlap detection is closed-interval and symmetric.  For all valid *)
(* ranges a and b (start <= end), the three-case query of the calendar     *)
(* module and the query of check_pet_availability select a record with     *)
(* range b for query a exactly when a.start <= b.end and b.start <= a.end, *)
(* and swapping a and b gives the same answer; so in every reachable state *)
(* check_date_availability and check_pet_availability list only bookings   *)
(* whose closed range meets the query range, and report a conflict for     *)
(* every in-window query range that meets the closed range of a pending    *)
(* booking: one ending on day D conflicts with a request starting on D,    *)
(* not with one starting on D + 1.                                         *)
(***************************************************************************)
ClosedOverlap(a, b) == a.start_date <= b.end_date /\ b.start_date <= a.end_date

C13_QueriesClosed ==
    \A a_start \in Days, a_end \in Days, b_start \in Days, b_end \in Days :
        LET a == Range(a_start, a_end)
            b == Range(b_start, b_end)
        IN  a_start <= a_end /\ b_start <= b_end
            => /\ ThreeCaseOverlap(b, a_start, a_end) = ClosedOverlap(a, b)
               /\ PetAvailabilityOverlap(b, a_start, a_end) = ClosedOverlap(a, b)
               /\ ThreeCaseOverlap(a, b_start, b_end)
                      = ThreeCaseOverlap(b, a_start, a_end)
               /\ PetAvailabilityOverlap(a, b_start, b_end)
                      = PetAvailabilityOverlap(b, a_start, a_end)

C13_PendingListed ==
    \A pet_id \in DOMAIN pets, start_date \in Days, end_date \in Days :
        LET a == Range(start_date, end_date)
            by_date == check_date_availability(pet_id, start_date, end_date)
            by_pet == check_pet_availability(pet_id, start_date, end_date)
        IN  start_date <= end_date
            => /\ \A i \in SeqToSet(by_date.booking_ids) :
                     ClosedOverlap(a, bookings[i])
               /\ \A i \in SeqToSet(by_pet.conflicting_bookings) :
                     ClosedOverlap(a, bookings[i])
               /\ \A i \in 1..Len(bookings) :
                     /\ bookings[i].pet_id = pet_id
                     /\ bookings[i].status = "pending"
                     /\ bookings[i].start_date <= bookings[i].end_date
                     /\ InWindow(pet_id, start_date, end_date)
                     /\ ClosedOverlap(a, bookings[i])
                     => /\ ~ by_date.is_available /\ by_date.booking_ids # <<>>
                        /\ ~ by_pet.available /\ by_pet.conflicting_bookings # <<>>

C13_ClosedSymmetricOverlap == C13_QueriesClosed /\ C13_PendingListed

(* a pending booking ends on day D: the request starting on D is refused   *)
(* naming it, by both checks, and the request starting on D + 1 is free    *)
C13_Witness ==
    \E i \in 1..Len(bookings) :
        LET pet_id == bookings[i].pet_id
            D == bookings[i].end_date
        IN  /\ bookings[i].status = "pending"
            /\ bookings[i].start_date < D
            /\ D + 1 \in Days
            /\ check_date_availability(pet_id, D, D + 1).booking_ids = <<i>>
            /\ check_pet_availability(pet_id, D, D + 1).conflicting_bookings = <<i>>
            /\ check_date_availability(pet_id, D + 1, D + 1).is_available
            /\ check_pet_availability(pet_id, D + 1, D + 1).available

(***************************************************************************)
(* C14: when a query range (inside the pet's window) shares a day both     *)
(* with a pending booking and with a blocked date of the pet,              *)
(* check_date_availability reports the booking conflict: blocked_reason is *)
(* the already-booked reason, booking_ids is not empty, and                *)
(* conflicting_dates holds only days of the range that the listed bookings *)
(* cover; the block reason is reported only when no pending booking shares *)
(* a day with the range.                                                   *)
(***************************************************************************)
BlocksSharingDay(pet_id, range) ==
    {k \in 1..Len(blocked_dates) : /\ blocked_dates[k].pet_id = pet_id
                                   /\ SharesDay(blocked_dates[k], range)}

Covers(doc, d) == doc.start_date <= d /\ d <= doc.end_date

BlocksCovering(pet_id, d) ==
    {k \in 1..Len(blocked_dates) : /\ blocked_dates[k].pet_id = pet_id
                                   /\ Covers(blocked_dates[k], d)}

PendingCovering(pet_id, d) ==
    {i \in 1..Len(bookings) : /\ bookings[i].pet_id = pet_id
                              /\ bookings[i].status = "pending"
                              /\ Covers(bookings[i], d)}

C15_OneEntryPerDay ==
    \A pet_id \in DOMAIN pets, start_date \in Days, end_date \in Days :
        LET answer == get_pet_calendar(pet_id, start_date, end_date)
            calendar == answer.calendar
        IN  start_date <= end_date
            => /\ answer.success
               /\ Len(calendar) = (end_date - start_date) + 1
               /\ \A k \in 1..Len(calendar) :
                     /\ calendar[k].date = start_date + k - 1
                     /\ BlocksCovering(pet_id, calendar[k].date) = {}
                        /\ PendingCovering(pet_id, calendar[k].date) = {}
                        => calendar[k].status = "available"

(* the calendar of a pet over all the days shows a pending booking and a   *)
(* free day, one entry per day, in date order, while the pet has a blocked *)
(* date as well                                                            *)
C15_Witness ==
    \E pet_id \in DOMAIN pets :
        LET calendar == get_pet_calendar(pet_id, 1, MaxDay).calendar
        IN  /\ Len(calendar) = MaxDay
            /\ \E k \in 1..MaxDay : calendar[k].status = "available"
            /\ \E k \in 1..MaxDay : calendar[k].status = "booked"
            /\ \E b \in 1..Len(blocked_dates) : blocked_dates[b].pet_id = pet_id
            /\ \A k \in 1..MaxDay : calendar[k].date = k

(***************************************************************************)
(* C16: in get_pet_calendar, a day of the range covered both by a blocked  *)
(* date and by a pending booking of the pet is reported with status booked *)
(* (carrying the id of a pending booking covering it), never blocked; a    *)
(* day covered by a blocked date and by no pending, accepted or            *)
(* in_progress booking is reported blocked with the reason and id of a     *)
(* block covering it.  Stated for the calendar over each blocked date's    *)
(* own range.                                                              *)
(* Fails: both queries of get_pet_calendar select nearly every document of *)
(* the pet (their $or holds for any document that starts before the end of *)
(* the range or ends after its start) and then keep the first 100 only.    *)
(***************************************************************************)
OccupyingCovering(pet_id, d) ==
    {i \in 1..Len(bookings) : /\ bookings[i].pet_id = pet_id
                              /\ bookings[i].status \in Occupying
                              /\ Covers(bookings[i], d)}

C16_BookedOverBlocked ==
    \A b \in 1..Len(blocked_dates) :
        LET pet_id == blocked_dates[b].pet_id
            start_date == blocked_dates[b].start_date
            end_date == blocked_dates[b].end_date
            calendar == get_pet_calendar(pet_id, start_date, end_date).calendar
        IN  \A k \in 1..Len(calendar) :
               LET d == calendar[k].date
               IN  /\ PendingCovering(pet_id, d) # {}
                      => /\ calendar[k].status = "booked"
                         /\ calendar[k].booking_id \in PendingCovering(pet_id, d)
                   /\ OccupyingCovering(pet_id, d) = {}
                      => /\ calendar[k].status = "blocked"
                         /\ \E c \in BlocksCovering(pet_id, d) :
                               /\ calendar[k].reason = blocked_dates[c].reason
                               /\ calendar[k].block_id = blocked_dates[c].id

(***************************************************************************)
(* C17: get_pet_calendar overlays every active booking: each day of the    *)
(* requested range that lies in the range of a booking of the pet with     *)
(* status pending, accepted or in_progress is reported with status booked; *)
(* so a booking the owner moved from pending to accepted is still shown as *)
(* booked.                                                                 *)
(* Fails: the bookings query of get_pet_calendar filters on "pending" and  *)
(* "confirmed".                                                            *)
(***************************************************************************)
C17_ActiveBookingsShown ==
    \A pet_id \in DOMAIN pets, start_date \in Days, end_date \in Days :
        LET calendar == get_pet_calendar(pet_id, start_date, end_date).calendar
        IN  start_date <= end_date
            => \A k \in 1..Len(calendar) :
                  OccupyingCovering(pet_id, calendar[k].date) # {}
                  => calendar[k].status = "booked"

(***************************************************************************)
(* C18: get_pet_calendar and check_date_availability are read-only and     *)
(* deterministic: a call changes no pet, booking or blocked date, and as   *)
(* long as no write follows it, the same call returns the output it        *)
(* returned before (the output a read returned is the output of that call  *)
(* in every later state up to the next write).                             *)
(***************************************************************************)
ReadOps == {"get_pet_calendar", "check_date_availability"}

C18_ReadStep ==
    result'.op \in ReadOps => UNCHANGED <<pets, bookings, blocked_dates>>

C18_SameOutputAgain ==
    /\ result.op = "get_pet_calendar" /\ result.ok
       => result.output = get_pet_calendar(result.query.pet_id,
                                           result.query.start_date,
                                           result.query.end_date).calendar
    /\ result.op = "check_date_availability" /\ result.ok
       => result.output = check_date_availability(result.query.pet_id,
                                                  result.query.start_date,
                                                  result.query.end_date)

C19_Pricing ==
    \A i \in 1..Len(bookings) :
        LET b == bookings[i]
        IN  /\ b.total_days = (b.end_date - b.start_date) + 1
            /\ b.daily_rate = pets[b.pet_id].dailyRate
            /\ b.total_amount = b.daily_rate * b.total_days
            /\ b.service_fee.tenths = b.total_amount
            /\ b.service_fee.excess = 0
            /\ b.grand_total.tenths = 10 * b.total_amount + b.service_fee.tenths
            /\ b.grand_total.excess = b.service_fee.excess

(***************************************************************************)
(* C20: update_booking_status sets a booking's status to accepted,         *)
(* rejected or completed only when the caller is the booking's owner, and  *)
(* to cancelled only when the caller is the booking's owner or renter; a   *)
(* call that lacks this right returns failure and leaves the booking (and  *)
(* every other one) unchanged.                                             *)
(***************************************************************************)
OwnerOnly == {"accepted", "rejected", "completed"}

HasRight(booking, status, user_id) ==
    /\ status \in OwnerOnly => user_id = booking.owner_id
    /\ status = "cancelled" => user_id \in {booking.owner_id, booking.renter_id}

C20_Refused ==
    /\ bookings' = bookings
    /\ result' = Return("update_booking_status", FALSE, "None", <<>>)

C20_OnlyByRight ==
    [][result'.op = "update_booking_status" /\ ~ C20_Refused =>
          \A booking_id \in 1..Len(bookings), status \in OwnerOnly \cup {"cancelled"},
             user_id \in Users :
             ~ HasRight(bookings[booking_id], status, user_id)
             => \A tick \in BOOLEAN :
                   ~ UpdateBookingStatus(booking_id, status, user_id, tick)]_vars

(* the last call was an update_booking_status on a stored booking, it      *)
(* failed, and no stored booking was ever written by an update: the call   *)
(* was refused for lack of the right                                       *)
C20_Witness ==
    /\ result = Return("update_booking_status", FALSE, "None", <<>>)
    /\ Len(bookings) >= 1
    /\ \A i \in 1..Len(bookings) :
          bookings[i].status = "pending" /\ bookings[i].updated_at = None

(***************************************************************************)
(* C21: blocked dates are created, updated and deleted only by the owner   *)
(* of the block's pet.  Every create_blocked_date, update_blocked_date or  *)
(* delete_blocked_date step that changes blocked_dates or returns success  *)
(* can only come from a call whose owner_id is the owner_id of the pet of  *)
(* the block: a call by anybody else returns failure and leaves            *)
(* blocked_dates as it was.                                                *)
(***************************************************************************)
BlockOps == {"create_blocked_date", "update_blocked_date", "delete_blocked_date"}

(* the user is not the owner of this stored pet *)
NotOwner(pet_id, user_id) ==
    pet_id \in DOMAIN pets /\ pets[pet_id].owner_id # user_id

C21_Refused ==
    /\ blocked_dates' = blocked_dates
    /\ ~ result'.ok

C21_OwnerOnly ==
    [][result'.op \in BlockOps /\ ~ C21_Refused =>
          /\ \A req \in PetBlockRequests, user_id \in Users :
                NotOwner(req.pet_id, user_id)
                => ~ CreateBlockedDate(req.pet_id, user_id, req.start_date,
                                       req.end_date, req.reason, "")
          /\ \A k \in 1..Len(blocked_dates), user_id \in Users :
                NotOwner(blocked_dates[k].pet_id, user_id)
                => /\ ~ DeleteBlockedDate(blocked_dates[k].id, user_id)
                   /\ \A update_data \in PetBlockUpdates, tick \in BOOLEAN :
                         ~ UpdateBlockedDate(blocked_dates[k].id, user_id,
                                             update_data, tick)]_vars

(* another user's delete of a stored blocked date has just been refused *)
C21_Witness ==
    /\ blocked_dates # <<>>
    /\ result = Return("delete_blocked_date", FALSE,
                       "You don't have permission to delete this blocked date", <<>>)

(***************************************************************************)
(* C22: booking creation reports a missing pet and a date conflict as      *)
(* distinct outcomes: a create_booking for a pet id that does not exist is *)
(* answered with HTTP 404, one for a range that shares a day with a        *)
(* pending, accepted or in_progress booking of the pet with HTTP 409 and   *)
(* the ids of the conflicting bookings.                                    *)
(* Fails: create_booking returns None for both and the endpoint answers    *)
(* every None with the same HTTP 400.                                      *)
(***************************************************************************)
C22_DistinctOutcomes ==
    [][result'.op = "create_booking" =>
          \A req \in BookingRequests, renter_id \in Renters :
             LET response == create_booking_endpoint(result')
                 conflicts == OccupyingBookings(req.pet_id,
                                                Range(req.start_date, req.end_date))
             IN  CreateBooking(req.pet_id, req.start_date, req.end_date, renter_id)
                 => /\ req.pet_id \notin DOMAIN pets => response.status_code = 404
                    /\ req.pet_id \in DOMAIN pets /\ conflicts # {}
                       => /\ response.status_code = 409
                          /\ SeqToSet(response.ids) = conflicts]_vars

(***************************************************************************)
(* C23: the five-day scenario.  Pet 1 is an active rentable pet with a     *)
(* daily rate and no availability window.  While it has no booking and no  *)
(* blocked date, check_date_availability over days 1..5 answers available; *)
(* once a create_booking for days 1..5 has succeeded and its pending       *)
(* booking is the pet's only one, the same check answers unavailable, with *)
(* conflicting_dates the five days in order and booking_ids the id of that *)
(* booking alone.                                                          *)
(***************************************************************************)
C23_BookingsOfPet == {i \in 1..Len(bookings) : bookings[i].pet_id = 1}

C23_BlocksOfPet == {k \in 1..Len(blocked_dates) : blocked_dates[k].pet_id = 1}

C23_Checked ==
    /\ result.op = "check_date_availability"
    /\ result.ok
    /\ result.query = Query(1, 1, 5)

C23_FiveDayScenario ==
    /\ pets[1].status = "active" /\ pets[1].listingType = "rent"
    /\ pets[1].dailyRate # None
    /\ pets[1].availableFrom = None /\ pets[1].availableTo = None
    /\ C23_Checked /\ C23_BlocksOfPet = {} =>
          /\ C23_BookingsOfPet = {} => result.output.is_available
          /\ \A i \in 1..Len(bookings) :
                /\ C23_BookingsOfPet = {i}
                /\ bookings[i].start_date = 1 /\ bookings[i].end_date = 5
                /\ bookings[i].status = "pending"
                => /\ ~ result.output.is_available
                   /\ result.output.conflicting_dates = <<1, 2, 3, 4, 5>>
                   /\ result.output.booking_ids = <<i>>
    /\ result = Return("create_booking", TRUE, "", <<Len(bookings)>>)
       /\ C23_BookingsOfPet = {Len(bookings)} /\ C23_BlocksOfPet = {}
       => LET new == bookings[Len(bookings)]
              answer == check_date_availability(1, new.start_date, new.end_date)
          IN  /\ new.status = "pending"
              /\ ~ answer.is_available
              /\ answer.booking_ids = <<Len(bookings)>>
              /\ answer.conflicting_dates = DateRange(new.start_date, new.end_date)

(* the check over days 1..5 has answered with the one pending booking of   *)
(* the pet, which covers these five days                                   *)
C23_Witness ==
    /\ C23_Checked
    /\ Len(bookings) = 1
    /\ bookings[1].start_date = 1 /\ bookings[1].end_date = 5
    /\ bookings[1].status = "pending" /\ bookings[1].pet_id = 1
    /\ result.output.booking_ids = <<1>>
    /\ Len(result.output.conflicting_dates) = 5

(***************************************************************************)
(* C24: when check_date_availability reports a booking or a block          *)
(* conflict for a range with start_date <= end_date, conflicting_dates is  *)
(* strictly ascending, holds exactly the days of the range that lie in the *)
(* range of a returned booking (of a returned block, for a block           *)
(* conflict), and is never empty.                                          *)
(* Fails: a stored booking or block whose end is before its start matches  *)
(* the three-case query and contributes no day.                            *)
(***************************************************************************)
C24_Returned(pet_id, start_date, end_date, answer) ==
    IF answer.blocked_reason.kind = "Some dates are already booked"
    THEN {bookings[i] : i \in SeqToSet(answer.booking_ids)}
    ELSE SeqToSet(ExistingBlocks(pet_id, start_date, end_date, None))

C24_ConflictingDates ==
    \A pet_id \in DOMAIN pets, start_date \in Days, end_date \in Days :
        LET answer == check_date_availability(pet_id, start_date, end_date)
            dates == answer.conflicting_dates
            returned == C24_Returned(pet_id, start_date, end_date, answer)
        IN  /\ start_date <= end_date
            /\ answer.blocked_reason.kind \in {"Some dates are already booked",
                                                "Some dates are blocked"}
            => /\ \A k \in 1..(Len(dates) - 1) : dates[k] < dates[k + 1]
               /\ SeqToSet(dates) =
                     {d \in start_date .. end_date :
                        \E doc \in returned : doc.start_date <= d /\ d <= doc.end_date}
               /\ dates # <<>>

(***************************************************************************)
(* C25: after any sequence of non-interleaved create_blocked_date,         *)
(* update_blocked_date and delete_blocked_date operations no two blocked   *)
(* dates of one pet share a calendar day; a creation or a re-dating by the *)
(* pet's owner whose resulting range (start_date <= end_date) shares a day *)
(* with another blocked date of the pet fails and writes nothing.  As      *)
(* first stated, the failure always lists the ids of the existing blocks;  *)
(* in the code the bookings check runs first, and when a pending booking   *)
(* meets the range too the failure lists booking ids instead.              *)
(***************************************************************************)

(* ids of the blocked dates of the pet, other than exclude_id, that share  *)
(* a day with the range                                                    *)
OtherBlocksSharingDay(pet_id, range, exclude_id) ==
    {blocked_dates[k].id : k \in {j \in BlocksSharingDay(pet_id, range) :
                                     blocked_dates[j].id # exclude_id}}

C25_NoSharedDay ==
    \A j \in 1..Len(blocked_dates), k \in 1..Len(blocked_dates) :
        j # k /\ blocked_dates[j].pet_id = blocked_dates[k].pet_id
        => ~ SharesDay(blocked_dates[j], blocked_dates[k])

(* what a call whose resulting range meets another block must do: as      *)
(* first stated (always the block ids), and as the code does it            *)
C25_FailsListingBlocks(pet_id, range, exclude_id) ==
    /\ blocked_dates' = blocked_dates
    /\ ~ result'.ok
    /\ SeqToSet(result'.ids) = OtherBlocksSharingDay(pet_id, range, exclude_id)

C25_Fails(pet_id, range, exclude_id) ==
    /\ blocked_dates' = blocked_dates
    /\ ~ result'.ok
    /\ IF PendingBookings(pet_id, range) = {}
       THEN /\ result'.message \in {"Some dates are already blocked",
                                     "Some dates overlap with existing blocked dates"}
            /\ OtherBlocksSharingDay(pet_id, range, exclude_id)
                   \subseteq SeqToSet(result'.ids)
            /\ SeqToSet(result'.ids) \subseteq BlockIds \ {exclude_id}
       ELSE /\ result'.message = "Cannot block dates with existing bookings"
            /\ PendingBookings(pet_id, range) \subseteq SeqToSet(result'.ids)

C25_Step(Fails(_, _, _)) ==
    result'.op \in {"create_blocked_date", "update_blocked_date"} =>
       /\ \A req \in PetBlockRequests, owner_id \in BlockOwners :
             /\ req.start_date <= req.end_date
             /\ req.pet_id \in DOMAIN pets /\ pets[req.pet_id].owner_id = owner_id
             /\ OtherBlocksSharingDay(req.pet_id,
                                      Range(req.start_date, req.end_date), None) # {}
             /\ CreateBlockedDate(req.pet_id, owner_id, req.start_date,
                                  req.end_date, req.reason, "")
             => Fails(req.pet_id, Range(req.start_date, req.end_date), None)
       /\ \A k \in 1..Len(blocked_dates), owner_id \in BlockOwners,
             update_data \in PetBlockUpdates :
             LET block == blocked_dates[k]
                 start_date == IF "start_date" \in DOMAIN update_data
                               THEN update_data.start_date ELSE block.start_date
                 end_date == IF "end_date" \in DOMAIN update_data
                             THEN update_data.end_date ELSE block.end_date
             IN  /\ pets[block.pet_id].owner_id = owner_id
                 /\ DOMAIN update_data \cap {"start_date", "end_date"} # {}
                 /\ start_date <= end_date
                 /\ OtherBlocksSharingDay(block.pet_id,
                                          Range(start_date, end_date), block.id) # {}
                 /\ \E tick \in BOOLEAN :
                       UpdateBlockedDate(block.id, owner_id, update_data, tick)
                 => Fails(block.pet_id, Range(start_date, end_date), block.id)

C26_Written(k, start_date, end_date) ==
    /\ Len(blocked_dates') = Len(blocked_dates)
    /\ \A j \in 1..Len(blocked_dates) :
          j # k => blocked_dates'[j] = blocked_dates[j]
    /\ blocked_dates'[k].id = blocked_dates[k].id
    /\ blocked_dates'[k].pet_id = blocked_dates[k].pet_id
    /\ blocked_dates'[k].start_date = start_date
    /\ blocked_dates'[k].end_date = end_date
    /\ result'.ok \/ blocked_dates' = blocked_dates
    /\ result'.message \in {"", "Failed to update blocked date"}

C26_UpdateStep ==
    \A k \in 1..Len(blocked_dates), update_data \in PetBlockUpdates :
        LET block == blocked_dates[k]
            owner_id == pets[block.pet_id].owner_id
            dated == DOMAIN update_data \cap {"start_date", "end_date"} # {}
            start_date == IF "start_date" \in DOMAIN update_data
                          THEN update_data.start_date ELSE block.start_date
            end_date == IF "end_date" \in DOMAIN update_data
                        THEN update_data.end_date ELSE block.end_date
            range == Range(start_date, end_date)
        IN  /\ dated => start_date <= end_date
            /\ \E tick \in BOOLEAN :
                  UpdateBlockedDate(block.id, owner_id, update_data, tick)
            => IF ~ dated
               THEN C26_Written(k, block.start_date, block.end_date)
               ELSE IF PendingBookings(block.pet_id, range) # {}
               THEN /\ blocked_dates' = blocked_dates
                    /\ result'.message = "Cannot block dates with existing bookings"
               ELSE IF OtherBlocksSharingDay(block.pet_id, range, block.id) # {}
               THEN /\ blocked_dates' = blocked_dates
                    /\ result'.message =
                          "Some dates overlap with existing blocked dates"
               ELSE C26_Written(k, start_date, end_date)

C26_UpdateChecksResultingRange ==
    [][result'.op = "update_blocked_date" => C26_UpdateStep]_vars

(* block 2..3 of pet 1 was re-dated to 2..2, inside its own old range,     *)
(* next to another block of the pet, and the last update succeeded         *)
C26_Witness ==
    /\ result = Return("update_blocked_date", TRUE, "", <<>>)
    /\ Len(blocked_dates) >= 2
    /\ \E k \in 1..Len(blocked_dates) :
          /\ blocked_dates[k].pet_id = 1
          /\ blocked_dates[k].start_date = 2 /\ blocked_dates[k].end_date = 2

(***************************************************************************)
(* C27: a user who is neither the owner nor the renter of a booking never  *)
(* changes it: for every target status an update_booking_status by such a  *)
(* user reports failure and leaves the booking as it was; and whenever     *)
(* update_booking_status reports failure, bookings is unchanged.           *)
(* Fails: targets pending and in_progress have no permission check, the    *)
(* write is done, and only the get_booking that follows returns None.      *)
(***************************************************************************)
C27_Stranger(booking, user_id) ==
    user_id # booking.owner_id /\ user_id # booking.renter_id

C27_StrangersNeverWrite ==
    [][result'.op = "update_booking_status" =>
          /\ ~ result'.ok => bookings' = bookings
          /\ \A booking_id \in 1..Len(bookings), status \in BookingStatus,
                user_id \in Users, tick \in BOOLEAN :
                /\ C27_Stranger(bookings[booking_id], user_id)
                /\ UpdateBookingStatus(booking_id, status, user_id, tick)
                => ~ result'.ok /\ bookings' = bookings]_vars

(***************************************************************************)
(* C28: the guard of create_booking and the public availability check      *)
(* agree: in every reachable state, for every stored pet (here: every      *)
(* active pet listed for rent) and every range with start_date <= end_date *)
(* check_pet_availability reports available exactly when                   *)
(* check_date_availability reports is_available.                           *)
(* Fails: only check_date_availability reads blocked_dates, and only       *)
(* check_pet_availability sees accepted and in_progress bookings.          *)
(***************************************************************************)
C28_GuardsAgree ==
    \A pet_id \in DOMAIN pets, start_date \in Days, end_date \in Days :
        /\ start_date <= end_date
        /\ pets[pet_id].status = "active" /\ pets[pet_id].listingType = "rent"
        => (check_pet_availability(pet_id, start_date, end_date).available
              <=> check_date_availability(pet_id, start_date, end_date).is_available)

(***************************************************************************)
(* C29: the calendar and the availability check agree day by day: in every *)
(* reachable state, for every stored pet, every day d inside the pet's     *)
(* availability window and every range start_date <= d <= end_date,        *)
(* get_pet_calendar over the range reports d as available exactly when     *)
(* check_date_availability over d..d reports is_available.                 *)
(* Fails: a stored range with its end before its start matches the         *)
(* three-case query of the check but marks no day of the calendar.         *)
(***************************************************************************)
C29_CalendarAgreesWithCheck ==
    \A pet_id \in DOMAIN pets, d \in Days, start_date \in Days, end_date \in Days :
        /\ start_date <= d /\ d <= end_date
        /\ InWindow(pet_id, d, d)
        => LET calendar == get_pet_calendar(pet_id, start_date, end_date).calendar
               entry == calendar[(d - start_date) + 1]
           IN  /\ entry.date = d
               /\ entry.status = "available"
                     <=> check_date_availability(pet_id, d, d).is_available

(***************************************************************************)
(* C30: a successful update_booking_status changes the status and          *)
(* updated_at of one booking and nothing else: every other field of that   *)
(* booking, every other booking and every blocked date stay as they were.  *)
(* Of all operations only create_booking changes the number of bookings,   *)
(* by appending one; no step removes or replaces a booking.                *)
(***************************************************************************)
C30_SameButStatus(old, new) ==
    new = [old EXCEPT !.status = new.status, !.updated_at = new.updated_at]

C30_OnlyStatusWritten ==
    /\ Len(bookings') = Len(bookings)
    /\ blocked_dates' = blocked_dates
    /\ \E i \in 1..Len(bookings) :
          /\ C30_SameButStatus(bookings[i], bookings'[i])
          /\ \A j \in 1..Len(bookings) : j # i => bookings'[j] = bookings[j]

C30_Step ==
    /\ result'.op = "update_booking_status" /\ result'.ok => C30_OnlyStatusWritten
    /\ Len(bookings') >= Len(bookings)
    /\ \A i \in 1..Len(bookings) : C30_SameButStatus(bookings[i], bookings'[i])
    /\ Len(bookings') # Len(bookings) =>
          /\ result'.op = "create_booking"
          /\ Len(bookings') = Len(bookings) + 1
          /\ SubSeq(bookings', 1, Len(bookings)) = bookings
    /\ bookings' # bookings =>
          result'.op \in {"create_booking", "update_booking_status"}

C30_StatusUpdateFrame == [][C30_Step]_vars

(* an accepted booking stands next to another booking and a blocked date,  *)
(* and the last update_booking_status succeeded                            *)
C30_Witness ==
    /\ result = Return("update_booking_status", TRUE, "", <<>>)
    /\ Len(bookings) >= 2 /\ blocked_dates # <<>>
    /\ \E i \in 1..Len(bookings) :
          bookings[i].status = "accepted" /\ bookings[i].updated_at = Stamp

====
